---- MODULE Spec2Model ----
(***************************************************************************)
(* backlight_manager: the daemon variant (src/Makefile, the C program that *)
(* starts at line 44) and the one-shot variant (src/backlight_manager.c).  *)
(*                                                                         *)
(* Spec       : invocations of the program as concurrent processes sharing *)
(*              the PID marker, the FIFO node and the brightness file.     *)
(* SpecRunning: one daemon inside its loop, clients come and go.           *)
(* SpecRunningFair: the same with clients of one kind and the daemon's     *)
(*              steps weakly fair.                                         *)
(* SpecClients: clients with a daemon inside its loop or with no daemon.   *)
(* SpecLifecycle: starts and stops, also with an unknown option.           *)
(* SpecStop   : one daemon inside its loop, then stops and starts.         *)
(* SpecOneShot: invocations of the one-shot variant.                       *)
(* SpecDevice : sequences of delta applications and ambient recomputations *)
(*              on one backlight device, configuration drawn at Init.      *)
(***************************************************************************)
EXTENDS Integers, Sequences, FiniteSets, TLC

\* Number of invocations of the program in one behaviour of Spec.
NProcs == 3

Procs == 1..NProcs

\* ------------------------------------------------------------------ inputs

Opt(o, n) == [opt |-> o, arg |-> n]

\* Command lines given to main (getopt order is argv order).
CommandLines ==
    { <<Opt("d", 0)>>,
      <<Opt("d", 0), Opt("s", 50)>>,
      <<Opt("a", 0), Opt("d", 0)>>,
      <<Opt("s", -30)>>,
      <<Opt("a", 0)>>,
      <<Opt("s", 50), Opt("a", 0)>>,
      <<Opt("k", 0)>> }

\* Values the ambient light sensor file may hold when it is read.
SensorValues == {0, 3, 60}

\* brightness_factor values: dyadic rationals num/den, for which the double
\* product illumination * brightness_factor is exact.
Factor(n, d) == [num |-> n, den |-> d]
FactorValues == {Factor(2, 1), Factor(1, 2), Factor(-1, 2)}

\* max_brightness values of the device, min_brightness percentages, and the
\* percent deltas of SpecDevice.
MaxBrightnessValues == {29, 100}
MinPercentValues == {0, 10, 100}
DeviceDeltas == {-1000, -100, -30, 30, 100, 1000}

\* ------------------------------------------------------------- arithmetic

Abs(x) == IF x < 0 THEN -x ELSE x
Sign(x) == IF x < 0 THEN -1 ELSE IF x > 0 THEN 1 ELSE 0
Min2(a, b) == IF a < b THEN a ELSE b
Max2(a, b) == IF a > b THEN a ELSE b

\* C conversion (int)x of the quotient a/b, b > 0: truncation toward zero.
TruncDiv(a, b) == IF a >= 0 THEN a \div b ELSE -((-a) \div b)

\* Pairs <<max_brightness, |percent|>> with max_brightness in
\* MaxBrightnessValues and |percent| <= 1200 for which the IEEE-754 double
\* product (max_brightness / 100.0) * percent lies just below the exact
\* integer max_brightness * percent / 100 (0.29 * 100 = 28.999999999999996).
FpShortfall == { <<29, 100>>, <<29, 200>>, <<29, 400>>, <<29, 800>> }

\* Rounding of the quotient a/b, b > 0, to the nearest integer, halves away
\* from zero.
RoundDiv(a, b) == Sign(a) * ((2 * Abs(a) + b) \div (2 * b))

\* (int)((max_screen_brightness / 100.0) * value)
PercentToUnitsRounded(max, value) == RoundDiv(max * value, 100)
PercentToUnits(max, value) ==
    LET exact == TruncDiv(max * value, 100)
    IN  IF <<max, Abs(value)>> \in FpShortfall THEN exact - Sign(exact) ELSE exact

\* The value set_backlight_brightness writes to <backlight_path>/brightness.
ClampUnbounded(brightness, max) == IF brightness < 1 THEN 1 ELSE brightness
ClampNoFloor(brightness, max) == IF brightness > max THEN max ELSE brightness
set_backlight_brightness(brightness, max) ==
    IF brightness < 1 THEN 1
    ELSE IF brightness > max THEN max
    ELSE brightness

\* The value adjust_brightness requests: current + (int)((max / 100.0) * value).
AdjustFromMax(current, value, max) == max + PercentToUnits(max, value)
adjust_brightness(current, value, max) == current + PercentToUnits(max, value)

\* config.min_brightness after the conversion at startup.
MinAbsolute(max, percent) == PercentToUnits(max, percent)

\* backlight_value of the ambient step of the daemon loop.
AmbientNoMinimum(illumination, factor, minAbs) ==
    TruncDiv(illumination * factor.num, factor.den)
AmbientValue(illumination, factor, minAbs) ==
    LET tmp_backlight_value == TruncDiv(illumination * factor.num, factor.den)
    IN  IF tmp_backlight_value > minAbs THEN tmp_backlight_value ELSE minAbs

\* ambient_mode after the daemon loop consumed a message.
AmbientSetAbsolute(ambient, requested) == IF requested THEN requested ELSE ambient
NextAmbientMode(ambient, requested) ==
    IF requested
    THEN (IF ambient THEN ~requested ELSE requested)
    ELSE ambient

\* ------------------------------------------------------------------ state

VARIABLES
    pc,                     \* position of each invocation in main
    argv,                   \* its command line
    optind,                 \* index of the next option getopt returns
    pid_file,               \* main's pid_file != NULL
    ambient_mode,           \* main's locals
    brightness_adjustment,
    daemon_mode,
    fd,                     \* inode main's fd reads, 0 = not open
    wfd,                    \* inode write_fifo's fd writes, 0 = not open
    exitCode,               \* exit status, -1 while the process has not exited
    exitAt,                 \* the position the process exited from
    pidfp,                  \* start_daemon's pid_file: the file it writes, 0 = not open
    sigPending,             \* processes with an undelivered SIGTERM
    signalled,              \* processes that exited in signal_handler
    pidFile,                \* content of PID_FILE_PATH, 0 = no such file
    pidIno,                 \* the file at PID_FILE_PATH (named by the process
                            \* that created it), 0 = no such file
    fifoNode,               \* inode at FIFO_PATH, 0 = no such node
    inodes,                 \* number of FIFO inodes created so far
    pipe,                   \* per inode: the messages written and not yet read
    brightness,             \* <screen_backlight_path>/brightness
    max_brightness,         \* <screen_backlight_path>/max_brightness
    config,                 \* ConfigData: brightness_factor, min_brightness
    consumed,               \* per process: the messages its loop has read
    applied,                \* per process: number of adjust_brightness calls
    sequential,             \* invoked when every earlier invocation had
                            \* exited or was a daemon inside its loop
    hist                    \* SpecDevice: the last two writes of the brightness file

vars == << pc, argv, optind, pid_file, ambient_mode, brightness_adjustment,
           daemon_mode, fd, wfd, exitCode, exitAt, pidfp, sigPending, signalled,
           pidFile, pidIno, fifoNode, inodes, pipe, brightness, max_brightness,
           config, consumed, applied, sequential, hist >>

procVars == << pc, argv, optind, pid_file, ambient_mode, brightness_adjustment,
               daemon_mode, fd, wfd, exitCode, exitAt, pidfp, sigPending, signalled,
               consumed, applied, sequential >>
fsVars == << pidFile, pidIno, fifoNode, inodes, pipe >>
cfgVars == << max_brightness, config >>

LoopPcs == {"loop", "sleep"}

Alive(p) == pc[p] \notin {"unborn", "exited"}

HasReader(i) == \E q \in Procs : fd[q] = i

PipeData(value, ambient) == [brightness_adjustment |-> value, ambient_mode |-> ambient]

\* What adjust_brightness(value, max, &config) writes when actual_brightness
\* holds current.
DeltaWrite(current, value, max) ==
    set_backlight_brightness(adjust_brightness(current, value, max), max)

\* What the ambient step writes when the sensor holds illumination.
AmbientWrite(illumination, max, cfg) ==
    set_backlight_brightness(
        AmbientValue(illumination, cfg.brightness_factor,
                     MinAbsolute(max, cfg.min_brightness)),
        max)

\* Content of a file that fopen(path, "w") has created or truncated and that
\* nothing has been written to: fscanf("%d") does not return 1 on it.
EmptyFile == -1

\* remove(path): what the path names afterwards.
RemoveFails(node) == node
remove(node) == 0

\* exit(code) / return code from main: the process ends, its descriptors close.
Exit(p, code) ==
    /\ pc' = [pc EXCEPT ![p] = "exited"]
    /\ exitCode' = [exitCode EXCEPT ![p] = code]
    /\ exitAt' = [exitAt EXCEPT ![p] = pc[p]]
    /\ fd' = [fd EXCEPT ![p] = 0]
    /\ wfd' = [wfd EXCEPT ![p] = 0]

\* ------------------------------------------------------------------- Init

Init ==
    /\ pc = [p \in Procs |-> "unborn"]
    /\ argv = [p \in Procs |-> << >>]
    /\ optind = [p \in Procs |-> 1]
    /\ pid_file = [p \in Procs |-> FALSE]
    /\ ambient_mode = [p \in Procs |-> FALSE]
    /\ brightness_adjustment = [p \in Procs |-> 0]
    /\ daemon_mode = [p \in Procs |-> FALSE]
    /\ fd = [p \in Procs |-> 0]
    /\ wfd = [p \in Procs |-> 0]
    /\ exitCode = [p \in Procs |-> -1]
    /\ exitAt = [p \in Procs |-> ""]
    /\ pidfp = [p \in Procs |-> 0]
    /\ sigPending = {}
    /\ signalled = {}
    /\ pidFile = 0
    /\ pidIno = 0
    /\ fifoNode = 0
    /\ inodes = 0
    /\ pipe = << >>
    /\ brightness = 50
    /\ max_brightness = 100
    /\ config = [brightness_factor |-> Factor(2, 1), min_brightness |-> 10]
    /\ consumed = [p \in Procs |-> << >>]
    /\ applied = [p \in Procs |-> 0]
    /\ sequential = [p \in Procs |-> FALSE]
    /\ hist = << >>

\* ---------------------------------------------------------------- actions

\* A new invocation: main up to and including fopen(PID_FILE_PATH, "r").
Invoke(p, cl) ==
    /\ pc[p] = "unborn"
    /\ \A q \in Procs : q < p => pc[q] # "unborn"
    /\ pc' = [pc EXCEPT ![p] = "getopt"]
    /\ argv' = [argv EXCEPT ![p] = cl]
    /\ pid_file' = [pid_file EXCEPT ![p] = (pidIno # 0)]
    /\ sequential' = [sequential EXCEPT ![p] =
                        \A q \in Procs : q < p => (pc[q] = "exited" \/ pc[q] \in LoopPcs)]
    /\ UNCHANGED << optind, ambient_mode, brightness_adjustment, daemon_mode, fd,
                    wfd, exitCode, exitAt, sigPending, signalled, consumed, applied,
                    pidfp >>
    /\ UNCHANGED << fsVars, cfgVars, brightness, hist >>

NextOpt(p) == argv[p][optind[p]]
AtOpt(p, o) == pc[p] = "getopt" /\ optind[p] <= Len(argv[p]) /\ NextOpt(p).opt = o

\* case 'a'
OptAmbient(p) ==
    /\ AtOpt(p, "a")
    /\ ambient_mode' = [ambient_mode EXCEPT ![p] = TRUE]
    /\ optind' = [optind EXCEPT ![p] = @ + 1]
    /\ UNCHANGED << pc, argv, pid_file, brightness_adjustment, daemon_mode, fd, wfd,
                    exitCode, exitAt, sigPending, signalled, consumed, applied, sequential, pidfp >>
    /\ UNCHANGED << fsVars, cfgVars, brightness, hist >>

\* case 's'
OptSet(p) ==
    /\ AtOpt(p, "s")
    /\ brightness_adjustment' = [brightness_adjustment EXCEPT ![p] = NextOpt(p).arg]
    /\ optind' = [optind EXCEPT ![p] = @ + 1]
    /\ UNCHANGED << pc, argv, pid_file, ambient_mode, daemon_mode, fd, wfd,
                    exitCode, exitAt, sigPending, signalled, consumed, applied, sequential, pidfp >>
    /\ UNCHANGED << fsVars, cfgVars, brightness, hist >>

\* case 'd'. When main saw no marker: start_daemon up to
\* fopen(PID_FILE_PATH, "w"), which creates the file or truncates the one
\* that is there (the parent exits in fork, the child goes on with the
\* handlers installed); a failing fork, setsid or fopen ends the process
\* with EXIT_FAILURE. When main saw a marker: only daemon_mode = true.
OptDaemon(p) ==
    /\ AtOpt(p, "d")
    /\ IF pid_file[p]
       THEN /\ daemon_mode' = [daemon_mode EXCEPT ![p] = TRUE]
            /\ optind' = [optind EXCEPT ![p] = @ + 1]
            /\ UNCHANGED << pc, pidFile, pidIno, pidfp, exitCode, exitAt, fd, wfd >>
       ELSE \/ /\ pidFile' = EmptyFile
               /\ pidIno' = IF pidIno = 0 THEN p ELSE pidIno
               /\ pidfp' = [pidfp EXCEPT ![p] = pidIno']
               /\ pc' = [pc EXCEPT ![p] = "pid_write"]
               /\ UNCHANGED << daemon_mode, optind, exitCode, exitAt, fd, wfd >>
            \/ /\ Exit(p, 1)
               /\ UNCHANGED << daemon_mode, optind, pidFile, pidIno, pidfp >>
    /\ UNCHANGED << argv, pid_file, ambient_mode, brightness_adjustment,
                    sigPending, signalled, consumed, applied, sequential >>
    /\ UNCHANGED << fifoNode, inodes, pipe, cfgVars, brightness, hist >>

\* start_daemon: fprintf(pid_file, "%d", (int)getpid()); fclose(pid_file).
\* The PID goes to the file fopen returned, which a stop may have unlinked
\* since (PIDs are taken to have the same number of digits).
WritePid(p) ==
    /\ pc[p] = "pid_write"
    /\ pidFile' = IF pidfp[p] = pidIno THEN p ELSE pidFile
    /\ pidfp' = [pidfp EXCEPT ![p] = 0]
    /\ pc' = [pc EXCEPT ![p] = "mkfifo"]
    /\ UNCHANGED << argv, optind, pid_file, ambient_mode, brightness_adjustment,
                    daemon_mode, fd, wfd, exitCode, exitAt, sigPending, signalled,
                    consumed, applied, sequential >>
    /\ UNCHANGED << pidIno, fifoNode, inodes, pipe, cfgVars, brightness, hist >>

\* mkfifo(FIFO_PATH, 0666), the last statement of start_daemon, and the
\* return to case 'd'. mkfifo on an existing node fails and is ignored.
Mkfifo(p) ==
    /\ pc[p] = "mkfifo"
    /\ IF fifoNode = 0
       THEN /\ inodes' = inodes + 1
            /\ fifoNode' = inodes + 1
            /\ pipe' = Append(pipe, << >>)
       ELSE UNCHANGED << inodes, fifoNode, pipe >>
    /\ daemon_mode' = [daemon_mode EXCEPT ![p] = TRUE]
    /\ optind' = [optind EXCEPT ![p] = @ + 1]
    /\ pc' = [pc EXCEPT ![p] = "getopt"]
    /\ UNCHANGED << argv, pid_file, ambient_mode, brightness_adjustment, fd, wfd,
                    exitCode, exitAt, sigPending, signalled, consumed, applied, sequential, pidfp >>
    /\ UNCHANGED << pidFile, pidIno, cfgVars, brightness, hist >>

\* case 'k': stop_daemon up to kill(pid, SIGTERM), or up to the message
\* "Invalid PID file content" when fscanf does not return 1; without a marker
\* stop_daemon returns and main exits with EXIT_SUCCESS.
OptKill(p) ==
    /\ AtOpt(p, "k")
    /\ IF pidIno = 0
       THEN /\ Exit(p, 0)
            /\ UNCHANGED sigPending
       ELSE /\ pc' = [pc EXCEPT ![p] =
                        IF pidFile = EmptyFile THEN "stop_invalid" ELSE "stop_remove"]
            /\ sigPending' = IF pidFile # EmptyFile /\ Alive(pidFile)
                             THEN sigPending \cup {pidFile}
                             ELSE sigPending
            /\ UNCHANGED << exitCode, exitAt, fd, wfd >>
    /\ UNCHANGED << argv, optind, pid_file, ambient_mode, brightness_adjustment,
                    daemon_mode, signalled, consumed, applied, sequential, pidfp >>
    /\ UNCHANGED << fsVars, cfgVars, brightness, hist >>

\* stop_daemon after either branch of the fscanf test: fclose(pid_file);
\* remove(PID_FILE_PATH); remove(FIFO_PATH); then exit(EXIT_SUCCESS).
StopPcs == {"stop_remove", "stop_invalid"}
StopRemove(p) ==
    /\ pc[p] \in StopPcs
    /\ pidFile' = remove(pidFile)
    /\ pidIno' = remove(pidIno)
    /\ fifoNode' = remove(fifoNode)
    /\ Exit(p, 0)
    /\ UNCHANGED << argv, optind, pid_file, ambient_mode, brightness_adjustment,
                    daemon_mode, sigPending, signalled, consumed, applied, sequential,
                    pidfp >>
    /\ UNCHANGED << inodes, pipe, cfgVars, brightness, hist >>

\* default: fprintf(stderr, "Unknown option: %c\n", option); return 1.
OptUnknown(p) ==
    /\ AtOpt(p, "x")
    /\ Exit(p, 1)
    /\ UNCHANGED << argv, optind, pid_file, ambient_mode, brightness_adjustment,
                    daemon_mode, sigPending, signalled, consumed, applied, sequential,
                    pidfp >>
    /\ UNCHANGED << fsVars, cfgVars, brightness, hist >>

\* getopt_long returns -1; if (daemon_mode) fd = open_pipe().
EndOptions(p) ==
    /\ pc[p] = "getopt"
    /\ optind[p] > Len(argv[p])
    /\ IF daemon_mode[p]
       THEN IF fifoNode = 0
            THEN Exit(p, 1)
            ELSE /\ fd' = [fd EXCEPT ![p] = fifoNode]
                 /\ pc' = [pc EXCEPT ![p] = "read_max"]
                 /\ UNCHANGED << exitCode, exitAt, wfd >>
       ELSE /\ pc' = [pc EXCEPT ![p] = "read_max"]
            /\ UNCHANGED << exitCode, exitAt, fd, wfd >>
    /\ UNCHANGED << argv, optind, pid_file, ambient_mode, brightness_adjustment,
                    daemon_mode, sigPending, signalled, consumed, applied, sequential, pidfp >>
    /\ UNCHANGED << fsVars, cfgVars, brightness, hist >>

\* if (pid_file == NULL) { if (brightness_adjustment != 0) adjust_brightness }
AppliesAnyDelta(p) == brightness_adjustment[p] # 0
AppliesOwnDelta(p) == ~pid_file[p] /\ brightness_adjustment[p] # 0

\* main from read_file(max_brightness) to the loop: the adjustment of an
\* invocation that saw no marker, the hand-over to write_fifo of a client that
\* saw one, and return 0 when daemon_mode is false. read_file and
\* set_backlight_brightness end the process with EXIT_FAILURE when their
\* fopen fails, before anything is written.
PreLoop(p) ==
    /\ pc[p] = "read_max"
    /\ \/ /\ IF AppliesOwnDelta(p)
             THEN /\ brightness' = DeltaWrite(brightness, brightness_adjustment[p],
                                              max_brightness)
                  /\ applied' = [applied EXCEPT ![p] = @ + 1]
             ELSE UNCHANGED << brightness, applied >>
          /\ IF pid_file[p] /\ ~daemon_mode[p]
             THEN /\ pc' = [pc EXCEPT ![p] = "write_fifo"]
                  /\ UNCHANGED << exitCode, exitAt, fd, wfd >>
             ELSE IF daemon_mode[p]
                  THEN /\ pc' = [pc EXCEPT ![p] = "loop"]
                       /\ UNCHANGED << exitCode, exitAt, fd, wfd >>
                  ELSE Exit(p, 0)
       \/ /\ Exit(p, 1)
          /\ UNCHANGED << brightness, applied >>
    /\ UNCHANGED << argv, optind, pid_file, ambient_mode, brightness_adjustment,
                    daemon_mode, sigPending, signalled, consumed, sequential, pidfp >>
    /\ UNCHANGED << fsVars, cfgVars, hist >>

\* write_fifo: open(FIFO_PATH, O_WRONLY). Without a node the open fails and
\* the client exits; with one it returns once the inode has a reader.
OpenWrite(p) ==
    /\ pc[p] = "write_fifo"
    /\ IF fifoNode = 0
       THEN Exit(p, 1)
       ELSE /\ wfd' = [wfd EXCEPT ![p] = fifoNode]
            /\ pc' = [pc EXCEPT ![p] = "write_open"]
            /\ UNCHANGED << exitCode, exitAt, fd >>
    /\ UNCHANGED << argv, optind, pid_file, ambient_mode, brightness_adjustment,
                    daemon_mode, sigPending, signalled, consumed, applied, sequential, pidfp >>
    /\ UNCHANGED << fsVars, cfgVars, brightness, hist >>

\* write_fifo: the open has returned; write(fd, &data, sizeof(data)), close,
\* and main returns 0.
WriteFifo(p) ==
    /\ pc[p] = "write_open"
    /\ HasReader(wfd[p])
    /\ pipe' = [pipe EXCEPT ![wfd[p]] =
                  Append(@, PipeData(brightness_adjustment[p], ambient_mode[p]))]
    /\ Exit(p, 0)
    /\ UNCHANGED << argv, optind, pid_file, ambient_mode, brightness_adjustment,
                    daemon_mode, sigPending, signalled, consumed, applied, sequential, pidfp >>
    /\ UNCHANGED << pidFile, pidIno, fifoNode, inodes, cfgVars, brightness, hist >>

\* read(fd, value, sizeof(PipeData)) on the descriptor open_pipe opened with
\* O_NONBLOCK returns at once, with a message, with 0 or with an error; on a
\* blocking descriptor it would wait while a writer holds the pipe open and
\* the pipe is empty.
ReadBlocks(p) == pipe[fd[p]] # << >> \/ ~(\E q \in Procs : wfd[q] = fd[p])
ReadReturns(p) == TRUE

\* What a read of sizeof(PipeData) bytes leaves in the pipe.
ReadDrainsAll(buf) == << >>
RestAfterRead(buf) == Tail(buf)

\* One iteration of while (daemon_mode): read_fifo and the update of the
\* locals, the apply step, the ambient step, up to sleep(config.update_rate).
DrainedDelta(p) ==
    IF pipe[fd[p]] # << >>
    THEN Head(pipe[fd[p]]).brightness_adjustment
    ELSE brightness_adjustment[p]
DrainedAmbient(p) ==
    IF pipe[fd[p]] # << >>
    THEN NextAmbientMode(ambient_mode[p], Head(pipe[fd[p]]).ambient_mode)
    ELSE ambient_mode[p]
AfterApply(p) ==
    IF DrainedDelta(p) # 0
    THEN DeltaWrite(brightness, DrainedDelta(p), max_brightness)
    ELSE brightness

\* The last value an iteration writes when the sensor holds illumination (the
\* brightness file as it was when the iteration writes nothing). In the loop
\* the apply step comes before the ambient step; IterationWriteDeltaLast is
\* the value with the two steps in the other order.
IterationWriteDeltaLast(p, illumination) ==
    LET afterAmbient == IF DrainedAmbient(p)
                        THEN AmbientWrite(illumination, max_brightness, config)
                        ELSE brightness
    IN  IF DrainedDelta(p) # 0
        THEN DeltaWrite(afterAmbient, DrainedDelta(p), max_brightness)
        ELSE afterAmbient
IterationWrite(p, illumination) ==
    IF DrainedAmbient(p)
    THEN AmbientWrite(illumination, max_brightness, config)
    ELSE AfterApply(p)

\* The iteration ends in sleep, or in exit(EXIT_FAILURE) when an fopen of
\* adjust_brightness (first alternative) or of the ambient step (second
\* alternative) fails.
Iterate(p) ==
    /\ pc[p] = "loop"
    /\ ReadReturns(p)
    /\ IF pipe[fd[p]] # << >>
       THEN /\ pipe' = [pipe EXCEPT ![fd[p]] = RestAfterRead(@)]
            /\ consumed' = [consumed EXCEPT ![p] = Append(@, Head(pipe[fd[p]]))]
       ELSE UNCHANGED << pipe, consumed >>
    /\ ambient_mode' = [ambient_mode EXCEPT ![p] = DrainedAmbient(p)]
    /\ \/ /\ brightness_adjustment' = [brightness_adjustment EXCEPT ![p] = 0]
          /\ applied' = [applied EXCEPT ![p] = IF DrainedDelta(p) # 0 THEN @ + 1 ELSE @]
          /\ \E illumination \in SensorValues :
                brightness' = IterationWrite(p, illumination)
          /\ pc' = [pc EXCEPT ![p] = "sleep"]
          /\ UNCHANGED << fd, wfd, exitCode, exitAt >>
       \/ /\ DrainedDelta(p) # 0
          /\ brightness_adjustment' = [brightness_adjustment EXCEPT ![p] = DrainedDelta(p)]
          /\ UNCHANGED << applied, brightness >>
          /\ Exit(p, 1)
       \/ /\ DrainedAmbient(p)
          /\ brightness_adjustment' = [brightness_adjustment EXCEPT ![p] = 0]
          /\ applied' = [applied EXCEPT ![p] = IF DrainedDelta(p) # 0 THEN @ + 1 ELSE @]
          /\ brightness' = AfterApply(p)
          /\ Exit(p, 1)
    /\ UNCHANGED << argv, optind, pid_file, daemon_mode, sigPending, signalled,
                    sequential, pidfp >>
    /\ UNCHANGED << pidFile, pidIno, fifoNode, inodes, cfgVars, hist >>

\* while (daemon_mode): the loop condition, which nothing in the loop changes.
LoopUntilIdle(p) == daemon_mode[p] /\ pipe[fd[p]] # << >>
LoopContinues(p) == daemon_mode[p]

\* sleep(config.update_rate) returns and the loop condition is tested;
\* return 0 follows the loop.
Sleep(p) ==
    /\ pc[p] = "sleep"
    /\ IF LoopContinues(p)
       THEN /\ pc' = [pc EXCEPT ![p] = "loop"]
            /\ UNCHANGED << fd, wfd, exitCode, exitAt >>
       ELSE Exit(p, 0)
    /\ UNCHANGED << argv, optind, pid_file, ambient_mode, brightness_adjustment,
                    daemon_mode, sigPending, signalled, consumed, applied, sequential,
                    pidfp >>
    /\ UNCHANGED << fsVars, cfgVars, brightness, hist >>

\* signal_handler: remove(PID_FILE_PATH); exit(0). Only PIDs read from the
\* marker are signalled, and start_daemon installs the handler before it
\* writes the marker.
SignalHandler(p) ==
    /\ p \in sigPending
    /\ Alive(p)
    /\ pidFile' = remove(pidFile)
    /\ pidIno' = remove(pidIno)
    /\ Exit(p, 0)
    /\ sigPending' = sigPending \ {p}
    /\ signalled' = signalled \cup {p}
    /\ UNCHANGED << argv, optind, pid_file, ambient_mode, brightness_adjustment,
                    daemon_mode, consumed, applied, sequential, pidfp >>
    /\ UNCHANGED << fifoNode, inodes, pipe, cfgVars, brightness, hist >>

Next ==
    \E p \in Procs :
        \/ \E cl \in CommandLines : Invoke(p, cl)
        \/ OptAmbient(p)
        \/ OptSet(p)
        \/ OptDaemon(p)
        \/ WritePid(p)
        \/ Mkfifo(p)
        \/ OptKill(p)
        \/ StopRemove(p)
        \/ EndOptions(p)
        \/ PreLoop(p)
        \/ OpenWrite(p)
        \/ WriteFifo(p)
        \/ Iterate(p)
        \/ Sleep(p)
        \/ SignalHandler(p)

Spec == Init /\ [][Next]_vars

\* ------------------------------------------------------------ SpecRunning

HasOpt(cl, o) == \E i \in DOMAIN cl : cl[i].opt = o

\* The locals of main once getopt has gone through the command line cl.
ParsedAmbient(cl) == HasOpt(cl, "a")
ParsedDelta(cl) ==
    IF HasOpt(cl, "s") THEN cl[CHOOSE i \in DOMAIN cl : cl[i].opt = "s"].arg ELSE 0

DaemonCommandLines == {cl \in CommandLines : HasOpt(cl, "d")}
ClientCommandLines == {cl \in CommandLines : ~HasOpt(cl, "d") /\ ~HasOpt(cl, "k")}

\* Process 1 was invoked with -d when no marker existed and has reached its
\* loop: the state Spec is in after Invoke, the option steps, Mkfifo,
\* EndOptions and PreLoop of process 1.
InitRunning ==
    \E cl \in DaemonCommandLines :
        /\ pc = [p \in Procs |-> IF p = 1 THEN "loop" ELSE "unborn"]
        /\ argv = [p \in Procs |-> IF p = 1 THEN cl ELSE << >>]
        /\ optind = [p \in Procs |-> IF p = 1 THEN Len(cl) + 1 ELSE 1]
        /\ pid_file = [p \in Procs |-> FALSE]
        /\ ambient_mode = [p \in Procs |-> p = 1 /\ ParsedAmbient(cl)]
        /\ brightness_adjustment = [p \in Procs |-> IF p = 1 THEN ParsedDelta(cl) ELSE 0]
        /\ daemon_mode = [p \in Procs |-> p = 1]
        /\ fd = [p \in Procs |-> IF p = 1 THEN 1 ELSE 0]
        /\ wfd = [p \in Procs |-> 0]
        /\ exitCode = [p \in Procs |-> -1]
        /\ exitAt = [p \in Procs |-> ""]
        /\ pidfp = [p \in Procs |-> 0]
        /\ sigPending = {}
        /\ signalled = {}
        /\ pidFile = 1
        /\ pidIno = 1
        /\ fifoNode = 1
        /\ inodes = 1
        /\ pipe = << << >> >>
        /\ max_brightness = 100
        /\ config = [brightness_factor |-> Factor(2, 1), min_brightness |-> 10]
        /\ brightness = IF ParsedDelta(cl) # 0
                        THEN DeltaWrite(50, ParsedDelta(cl), 100)
                        ELSE 50
        /\ consumed = [p \in Procs |-> << >>]
        /\ applied = [p \in Procs |-> IF p = 1 /\ ParsedDelta(cl) # 0 THEN 1 ELSE 0]
        /\ sequential = [p \in Procs |-> p = 1]
        /\ hist = << >>

NextRunning ==
    \E p \in Procs :
        \/ \E cl \in ClientCommandLines : Invoke(p, cl)
        \/ OptAmbient(p)
        \/ OptSet(p)
        \/ EndOptions(p)
        \/ PreLoop(p)
        \/ OpenWrite(p)
        \/ WriteFifo(p)
        \/ Iterate(p)
        \/ Sleep(p)

SpecRunning == InitRunning /\ [][NextRunning]_vars

\* ------------------------------------------------------- SpecRunningFair

\* One daemon inside its loop and clients with -s; the daemon process is
\* scheduled again and again and sleep returns, while a client may stop at
\* any point.
FairClientCommandLines == { <<Opt("s", -30)>> }

NextRunningFair ==
    \E p \in Procs :
        \/ \E cl \in FairClientCommandLines : Invoke(p, cl)
        \/ OptSet(p)
        \/ EndOptions(p)
        \/ PreLoop(p)
        \/ OpenWrite(p)
        \/ WriteFifo(p)
        \/ Iterate(p)
        \/ Sleep(p)

SpecRunningFair ==
    /\ InitRunning
    /\ [][NextRunningFair]_vars
    /\ \A p \in Procs : WF_vars(Iterate(p)) /\ WF_vars(Sleep(p))

\* ------------------------------------------------------------ SpecClients

\* Invocations without -d and -k, with a daemon in its loop or with no
\* daemon, marker and FIFO at all.
SpecClients == (Init \/ InitRunning) /\ [][NextRunning]_vars

\* ---------------------------------------------------------- SpecLifecycle

\* Starts and stops of the daemon, with and without an option getopt does
\* not know after -d and -k.
LifecycleCommandLines ==
    { <<Opt("d", 0)>>,
      <<Opt("a", 0), Opt("d", 0)>>,
      <<Opt("k", 0)>>,
      <<Opt("d", 0), Opt("x", 0)>>,
      <<Opt("k", 0), Opt("x", 0)>> }

NextLifecycle ==
    \E p \in Procs :
        \/ \E cl \in LifecycleCommandLines : Invoke(p, cl)
        \/ OptAmbient(p)
        \/ OptDaemon(p)
        \/ WritePid(p)
        \/ Mkfifo(p)
        \/ OptKill(p)
        \/ StopRemove(p)
        \/ OptUnknown(p)
        \/ EndOptions(p)
        \/ PreLoop(p)
        \/ Iterate(p)
        \/ Sleep(p)
        \/ SignalHandler(p)

SpecLifecycle == Init /\ [][NextLifecycle]_vars

\* --------------------------------------------------------------- SpecStop

\* A daemon in its loop, then stops and further starts.
StopCommandLines == { <<Opt("k", 0)>>, <<Opt("d", 0)>> }

NextStop ==
    \E p \in Procs :
        \/ \E cl \in StopCommandLines : Invoke(p, cl)
        \/ OptDaemon(p)
        \/ WritePid(p)
        \/ Mkfifo(p)
        \/ OptKill(p)
        \/ StopRemove(p)
        \/ EndOptions(p)
        \/ PreLoop(p)
        \/ Iterate(p)
        \/ Sleep(p)
        \/ SignalHandler(p)

SpecStop == InitRunning /\ [][NextStop]_vars

\* ------------------------------------------------------------ SpecOneShot

\* The one-shot variant, src/backlight_manager.c: no daemon, marker or FIFO.
\* main from read_file(max_brightness) to the ambient loop; read_file and
\* set_backlight_brightness end the process when their fopen fails.
OneShotPreLoop(p) ==
    /\ pc[p] = "read_max"
    /\ \/ /\ IF brightness_adjustment[p] # 0
             THEN /\ brightness' = DeltaWrite(brightness, brightness_adjustment[p],
                                              max_brightness)
                  /\ applied' = [applied EXCEPT ![p] = @ + 1]
             ELSE UNCHANGED << brightness, applied >>
          /\ IF ambient_mode[p]
             THEN /\ pc' = [pc EXCEPT ![p] = "ambient"]
                  /\ UNCHANGED << exitCode, exitAt, fd, wfd >>
             ELSE Exit(p, 0)
       \/ /\ Exit(p, 1)
          /\ UNCHANGED << brightness, applied >>
    /\ UNCHANGED << argv, optind, pid_file, ambient_mode, brightness_adjustment,
                    daemon_mode, sigPending, signalled, consumed, sequential, pidfp >>
    /\ UNCHANGED << fsVars, cfgVars, hist >>

\* What the ambient loop writes when the sensor holds illumination:
\* backlight_value = (int)(illumination * config.brightness_factor), with no
\* minimum, clamped by set_backlight_brightness.
OneShotAmbientWrite(illumination) ==
    set_backlight_brightness(
        TruncDiv(illumination * config.brightness_factor.num,
                 config.brightness_factor.den),
        max_brightness)

\* The body of while (ambient_mode) up to sleep(config.update_rate).
OneShotAmbient(p) ==
    /\ pc[p] = "ambient"
    /\ \/ /\ \E illumination \in SensorValues :
                brightness' = OneShotAmbientWrite(illumination)
          /\ pc' = [pc EXCEPT ![p] = "ambient_sleep"]
          /\ UNCHANGED << exitCode, exitAt, fd, wfd >>
       \/ /\ Exit(p, 1)
          /\ UNCHANGED brightness
    /\ UNCHANGED << argv, optind, pid_file, ambient_mode, brightness_adjustment,
                    daemon_mode, sigPending, signalled, consumed, applied, sequential,
                    pidfp >>
    /\ UNCHANGED << fsVars, cfgVars, hist >>

\* sleep returns; ambient_mode is not assigned in the loop.
OneShotSleep(p) ==
    /\ pc[p] = "ambient_sleep"
    /\ IF ambient_mode[p]
       THEN /\ pc' = [pc EXCEPT ![p] = "ambient"]
            /\ UNCHANGED << exitCode, exitAt, fd, wfd >>
       ELSE Exit(p, 0)
    /\ UNCHANGED << argv, optind, pid_file, ambient_mode, brightness_adjustment,
                    daemon_mode, sigPending, signalled, consumed, applied, sequential,
                    pidfp >>
    /\ UNCHANGED << fsVars, cfgVars, brightness, hist >>

NextOneShot ==
    \E p \in Procs :
        \/ \E cl \in ClientCommandLines : Invoke(p, cl)
        \/ OptAmbient(p)
        \/ OptSet(p)
        \/ EndOptions(p)
        \/ OneShotPreLoop(p)
        \/ OneShotAmbient(p)
        \/ OneShotSleep(p)

SpecOneShot == Init /\ [][NextOneShot]_vars

\* ------------------------------------------------------------- SpecDevice

\* One write of the brightness file: set_backlight_brightness(requested, max)
\* wrote after when the file held before.
Write(op, arg, before, requested, after) ==
    [op |-> op, arg |-> arg, before |-> before, requested |-> requested,
     after |-> after]

Remember(w) == IF hist = << >> THEN << w >> ELSE << hist[Len(hist)], w >>

InitDevice ==
    /\ pc = [p \in Procs |-> "unborn"]
    /\ argv = [p \in Procs |-> << >>]
    /\ optind = [p \in Procs |-> 1]
    /\ pid_file = [p \in Procs |-> FALSE]
    /\ ambient_mode = [p \in Procs |-> FALSE]
    /\ brightness_adjustment = [p \in Procs |-> 0]
    /\ daemon_mode = [p \in Procs |-> FALSE]
    /\ fd = [p \in Procs |-> 0]
    /\ wfd = [p \in Procs |-> 0]
    /\ exitCode = [p \in Procs |-> -1]
    /\ exitAt = [p \in Procs |-> ""]
    /\ pidfp = [p \in Procs |-> 0]
    /\ sigPending = {}
    /\ signalled = {}
    /\ pidFile = 0
    /\ pidIno = 0
    /\ fifoNode = 0
    /\ inodes = 0
    /\ pipe = << >>
    /\ max_brightness \in MaxBrightnessValues
    /\ config \in [brightness_factor : FactorValues, min_brightness : MinPercentValues]
    /\ brightness \in 1..max_brightness
    /\ consumed = [p \in Procs |-> << >>]
    /\ applied = [p \in Procs |-> 0]
    /\ sequential = [p \in Procs |-> FALSE]
    /\ hist = << >>

\* adjust_brightness(value, max_screen_brightness, &config)
DeviceDelta(value) ==
    /\ brightness' = DeltaWrite(brightness, value, max_brightness)
    /\ hist' = Remember(Write("delta", value, brightness,
                              adjust_brightness(brightness, value, max_brightness),
                              brightness'))
    /\ UNCHANGED << procVars, fsVars, cfgVars >>

\* The ambient step of the loop with the sensor holding illumination.
DeviceAmbient(illumination) ==
    /\ brightness' = AmbientWrite(illumination, max_brightness, config)
    /\ hist' = Remember(Write("ambient", illumination, brightness,
                              AmbientValue(illumination, config.brightness_factor,
                                  MinAbsolute(max_brightness, config.min_brightness)),
                              brightness'))
    /\ UNCHANGED << procVars, fsVars, cfgVars >>

NextDevice ==
    \/ \E value \in DeviceDeltas : DeviceDelta(value)
    \/ \E illumination \in SensorValues : DeviceAmbient(illumination)

SpecDevice == InitDevice /\ [][NextDevice]_vars

\* ----------------------------------------------------------------- claims

\* Number of consumed messages whose ambient_mode field is true.
ToggleCount(msgs) == Cardinality({i \in DOMAIN msgs : msgs[i].ambient_mode})

\* C1: in every state of a daemon loop, ambient_mode equals the flag the loop
\* was entered with (set by -a on the daemon's command line) XOR the parity
\* of the number of consumed messages whose ambient_mode field is true; a
\* consumed message with ambient_mode false therefore leaves it unchanged.
C1_AmbientParity ==
    \A p \in Procs :
        pc[p] \in LoopPcs =>
            (ambient_mode[p] <=>
                (ParsedAmbient(argv[p]) # (ToggleCount(consumed[p]) % 2 = 1)))

\* A loop entered with ambient_mode true has consumed a message with the
\* field true and one with the field false.
C1_Witness ==
    \E p \in Procs :
        /\ pc[p] \in LoopPcs
        /\ ParsedAmbient(argv[p])
        /\ \E i, j \in DOMAIN consumed[p] :
              consumed[p][i].ambient_mode /\ ~consumed[p][j].ambient_mode

\* C2: at most one process is inside the daemon control loop.
C2_AtMostOneDaemon == Cardinality({p \in Procs : pc[p] \in LoopPcs}) <= 1

\* C3: the step in which a process exits in signal_handler leaves neither
\* the PID marker nor the FIFO node behind.
C3_HandlerRemovesBoth ==
    [][\A p \in Procs :
          (p \notin signalled /\ p \in signalled') => (pidFile' = 0 /\ fifoNode' = 0)]_vars

\* The daemon of invocation p has passed start (option 'd' is behind it) and
\* has neither exited nor been sent a signal.
StartedAndRunning(p) ==
    /\ Alive(p)
    /\ p \notin sigPending
    /\ (pc[p] = "mkfifo" \/ daemon_mode[p])

\* C4: start; stop; start, each invoked after the one before has returned
\* (the first daemon being inside its loop when stop is invoked): the second
\* -d is not treated as already running, and while its daemon runs the
\* marker holds its PID, whenever the first daemon's handler runs.
C4_RestartKeepsMarker ==
    \A p1, k, p2 \in Procs :
        ( /\ p1 < k /\ k < p2
          /\ argv[p1] = <<Opt("d", 0)>>
          /\ argv[k] = <<Opt("k", 0)>>
          /\ argv[p2] = <<Opt("d", 0)>>
          /\ ~pid_file[p1]
          /\ sequential[k] /\ sequential[p2]
          /\ pc[k] = "exited"
          /\ StartedAndRunning(p2) )
        => (~pid_file[p2] /\ pidFile = p2)

\* C5: while the marker names a live daemon the FIFO node exists and that
\* daemon holds a read descriptor on it, and a client that saw the marker
\* is never about to open a missing node or a node nobody reads.
C5_MarkerImpliesReader ==
    /\ \A p \in Procs :
          (pidFile = p /\ Alive(p)) => (fifoNode # 0 /\ fd[p] = fifoNode)
    /\ \A c \in Procs :
          pc[c] = "write_fifo" => (fifoNode # 0 /\ HasReader(fifoNode))

\* Number of deltas requested of the daemon of invocation p: one for a
\* non-zero -s on its command line, one per consumed message with a non-zero
\* brightness_adjustment.
Requested(p) ==
    (IF ParsedDelta(argv[p]) # 0 THEN 1 ELSE 0)
    + Cardinality({i \in DOMAIN consumed[p] : consumed[p][i].brightness_adjustment # 0})

\* C6: at the end of every iteration of a daemon started by its own -d, the
\* number of adjust_brightness calls equals the number of requested deltas
\* and the pending delta is 0.
C6_EachDeltaAppliedOnce ==
    \A p \in Procs :
        (pc[p] = "sleep" /\ ~pid_file[p]) =>
            (applied[p] = Requested(p) /\ brightness_adjustment[p] = 0)

\* C7: every value written to the brightness file lies in 1..max_brightness.
C7_WritesWithinRange ==
    \A i \in DOMAIN hist : hist[i].after \in 1..max_brightness

\* Of the last two writes one was requested below 1 and one above max.
C7_Witness ==
    /\ \E i \in DOMAIN hist : hist[i].requested < 0
    /\ \E i \in DOMAIN hist : hist[i].requested > max_brightness
    /\ \E i \in DOMAIN hist : hist[i].op = "ambient"
    /\ \E i \in DOMAIN hist : hist[i].op = "delta"

\* C8: every ambient write is at least the absolute minimum
\* (int)(max_brightness / 100.0 * min_brightness).
C8_AmbientAtLeastMinimum ==
    \A i \in DOMAIN hist :
        hist[i].op = "ambient" =>
            hist[i].after >= MinAbsolute(max_brightness, config.min_brightness)

\* An ambient write with a negative product sensor * factor and an absolute
\* minimum above 1.
C8_Witness ==
    \E i \in DOMAIN hist :
        /\ hist[i].op = "ambient"
        /\ hist[i].arg * config.brightness_factor.num < 0
        /\ MinAbsolute(max_brightness, config.min_brightness) > 1
        /\ hist[i].after = MinAbsolute(max_brightness, config.min_brightness)

\* floor(sensor * brightness_factor)
FloorProduct(illumination, factor) == (illumination * factor.num) \div factor.den

\* C9: an ambient write equals
\* min(max_brightness, max(1, max(floor(sensor * factor), minAbsolute))); with
\* factor 2, min_brightness 10 and max_brightness 100, sensor 3 writes 10 and
\* sensor 60 writes 100.
C9_AmbientFormula ==
    \A i \in DOMAIN hist :
        hist[i].op = "ambient" =>
            /\ hist[i].after =
                  Min2(max_brightness,
                       Max2(1, Max2(FloorProduct(hist[i].arg, config.brightness_factor),
                                    MinAbsolute(max_brightness, config.min_brightness))))
            /\ ( /\ max_brightness = 100
                 /\ config = [brightness_factor |-> Factor(2, 1), min_brightness |-> 10] )
               => /\ hist[i].arg = 3 => hist[i].after = 10
                  /\ hist[i].arg = 60 => hist[i].after = 100

\* The two ambient writes of the example, one after the other.
C9_Witness ==
    /\ Len(hist) = 2
    /\ hist[1].op = "ambient" /\ hist[2].op = "ambient"
    /\ max_brightness = 100
    /\ config = [brightness_factor |-> Factor(2, 1), min_brightness |-> 10]
    /\ hist[1].arg = 3 /\ hist[1].after = 10
    /\ hist[2].arg = 60 /\ hist[2].after = 100

\* An ambient write whose product sensor * factor is negative and not an
\* integer, where floor and (int) differ.
C9_TruncationCase ==
    \E i \in DOMAIN hist :
        /\ hist[i].op = "ambient"
        /\ FloorProduct(hist[i].arg, config.brightness_factor)
             # TruncDiv(hist[i].arg * config.brightness_factor.num,
                        config.brightness_factor.den)

\* The last two writes are a delta of +d and then a delta of -d, the first
\* starting from a brightness in 1..max_brightness.
RoundTrip ==
    /\ Len(hist) = 2
    /\ hist[1].op = "delta" /\ hist[2].op = "delta"
    /\ hist[2].arg = -hist[1].arg
    /\ hist[1].before \in 1..max_brightness

\* C10 as claimed: +d then -d leaves the brightness within one unit of b.
C10_RoundTripWithinOne ==
    RoundTrip => Abs(hist[2].after - hist[1].before) <= 1

\* C10 as amended: the same when the first application was not clamped.
C10_RoundTripUnclamped ==
    (RoundTrip /\ hist[1].requested \in 1..max_brightness)
        => Abs(hist[2].after - hist[1].before) <= 1

\* An unclamped round trip that changed the brightness in between, with a
\* percentage the double arithmetic rounds short.
C10_Witness ==
    /\ RoundTrip
    /\ hist[1].requested \in 1..max_brightness
    /\ hist[1].after # hist[1].before
    /\ <<max_brightness, Abs(hist[1].arg)>> \in FpShortfall

\* The step is one of process p.
StepOf(p) == pc'[p] # pc[p]

\* C11: a stop that finds no marker, or a marker whose content does not
\* parse as a PID, sends no signal and returns with the marker and the FIFO
\* node as they were, and its invocation exits with code 0.
C11_FailedStopChangesNothing ==
    [][\A p \in Procs :
          ( /\ StepOf(p)
            /\ \/ AtOpt(p, "k") /\ (pidIno = 0 \/ pidFile = EmptyFile)
               \/ pc[p] = "stop_invalid" )
          => /\ sigPending' = sigPending
             /\ pidFile' = pidFile /\ pidIno' = pidIno /\ fifoNode' = fifoNode
             /\ pc'[p] = "exited" => exitCode'[p] = 0]_vars

\* C12: the step in which a stop that read a PID from the marker returns
\* leaves neither the marker nor the FIFO node, whatever kill returned, and
\* exits 0; a stop that runs when neither exists changes nothing and exits 0.
C12_StopRemovesBoth ==
    [][\A p \in Procs :
          /\ (StepOf(p) /\ pc[p] = "stop_remove")
                => /\ pidIno' = 0 /\ pidFile' = 0 /\ fifoNode' = 0
                   /\ pc'[p] = "exited" /\ exitCode'[p] = 0
          /\ (StepOf(p) /\ AtOpt(p, "k") /\ pidIno = 0 /\ fifoNode = 0)
                => /\ UNCHANGED << pidFile, pidIno, fifoNode, sigPending, brightness >>
                   /\ pc'[p] = "exited" /\ exitCode'[p] = 0]_vars

\* The daemon was signalled by a first stop, which removed marker and node;
\* a second stop, invoked after the first had exited, found nothing.
C12_Witness ==
    \E k1, k2 \in Procs :
        /\ k1 < k2
        /\ argv[k1] = <<Opt("k", 0)>> /\ argv[k2] = <<Opt("k", 0)>>
        /\ 1 \in signalled
        /\ exitAt[k1] = "stop_remove" /\ exitCode[k1] = 0
        /\ sequential[k2] /\ exitAt[k2] = "getopt" /\ exitCode[k2] = 0
        /\ pidIno = 0 /\ fifoNode = 0

\* The same when the daemon had exited on its own before the first stop read
\* its PID, so that kill failed.
C12_UndeliveredCase ==
    \E k1, k2 \in Procs :
        /\ k1 < k2
        /\ argv[k1] = <<Opt("k", 0)>> /\ argv[k2] = <<Opt("k", 0)>>
        /\ exitCode[1] = 1 /\ 1 \notin sigPending
        /\ exitAt[k1] = "stop_remove" /\ exitCode[k1] = 0
        /\ sequential[k2] /\ exitAt[k2] = "getopt" /\ exitCode[k2] = 0
        /\ pidIno = 0 /\ fifoNode = 0

\* C13: a process that was starting a daemon (-d, no marker seen) and that
\* exited on a fatal error before its loop has a non-zero exit code and has
\* not left its PID in the marker.
C13_FailedStartLeavesNoMarker ==
    \A p \in Procs :
        ( /\ pc[p] = "exited" /\ p \notin signalled
          /\ HasOpt(argv[p], "d") /\ ~HasOpt(argv[p], "x") /\ ~pid_file[p]
          /\ exitAt[p] \in {"getopt", "read_max"} )
        => (exitCode[p] # 0 /\ pidFile # p)

\* C14: an invocation with an unknown option on its command line is never
\* inside start_daemon, stop_daemon or write_fifo, and it exits with code 1
\* from the option loop.
C14_UnknownOptionDoesNothing ==
    \A p \in Procs :
        HasOpt(argv[p], "x") =>
            /\ pc[p] \notin {"pid_write", "mkfifo", "write_fifo", "write_open"} \cup StopPcs
            /\ pc[p] = "exited" => (exitCode[p] = 1 /\ exitAt[p] = "getopt")

\* An invocation that is neither a daemon start nor a stop.
IsClient(p) ==
    /\ pc[p] # "unborn"
    /\ ~HasOpt(argv[p], "d") /\ ~HasOpt(argv[p], "k") /\ ~HasOpt(argv[p], "x")

WritePcs == {"write_fifo", "write_open"}

\* Number of messages in the pipes and in the daemons' consumed sequences.
RECURSIVE SumLen(_, _)
SumLen(f, S) ==
    IF S = {} THEN 0
    ELSE LET x == CHOOSE y \in S : TRUE IN Len(f[x]) + SumLen(f, S \ {x})
TotalMessages == SumLen(pipe, DOMAIN pipe) + SumLen(consumed, Procs)

\* C15 as claimed: a client that saw the marker never writes the brightness
\* file and has written its one message when it has exited; an invocation
\* that saw no marker is never inside write_fifo.
C15_ClientWritesOnce ==
    \A p \in Procs :
        IsClient(p) =>
            IF pid_file[p]
            THEN /\ applied[p] = 0
                 /\ pc[p] = "exited" => exitAt[p] = "write_open"
            ELSE pc[p] \notin WritePcs /\ exitAt[p] # "write_open"

\* C15 as amended: a client that saw the marker never writes the brightness
\* file; when it has exited it has written one message and its code is 0, or
\* it has written none and exited with a failure from read_file or from the
\* open of the FIFO; every message in the channel comes from one such write.
\* An invocation that saw no marker is never inside write_fifo.
C15_ClientWritesAtMostOnce ==
    /\ \A p \in Procs :
          IsClient(p) =>
              IF pid_file[p]
              THEN /\ applied[p] = 0
                   /\ pc[p] = "exited" =>
                         \/ exitAt[p] = "write_open" /\ exitCode[p] = 0
                         \/ exitAt[p] \in {"read_max", "write_fifo"} /\ exitCode[p] = 1
              ELSE pc[p] \notin WritePcs /\ exitAt[p] # "write_open"
    /\ TotalMessages = Cardinality({p \in Procs : exitAt[p] = "write_open"})

\* A client with -s that saw the marker has written its message and exited
\* with code 0, and another has exited with a failure without writing.
C15_Witness ==
    \E p, q \in Procs :
        /\ IsClient(p) /\ pid_file[p] /\ ParsedDelta(argv[p]) # 0
        /\ exitAt[p] = "write_open" /\ exitCode[p] = 0 /\ applied[p] = 0
        /\ IsClient(q) /\ pid_file[q] /\ exitCode[q] = 1
        /\ TotalMessages = 1

\* An invocation with -s that saw no marker has applied its delta itself and
\* exited.
C15_NoMarkerCase ==
    \E p \in Procs :
        /\ IsClient(p) /\ ~pid_file[p] /\ applied[p] = 1 /\ exitCode[p] = 0

\* C16 as claimed: the target of a delta application is
\* current + round(max_brightness / 100 * delta), rounded to nearest.
C16_DeltaRounded ==
    \A i \in DOMAIN hist :
        hist[i].op = "delta" =>
            hist[i].requested = hist[i].before + RoundDiv(max_brightness * hist[i].arg, 100)

\* C16 as amended: the target is current + t, where t is the product
\* max_brightness * delta / 100 truncated toward zero, or one unit nearer to
\* zero when the exact product is an integer that the double arithmetic falls
\* short of: t has the sign of delta and |t| <= |product| <= |t| + 1.
C16_DeltaTruncated ==
    \A i \in DOMAIN hist :
        hist[i].op = "delta" =>
            LET t == hist[i].requested - hist[i].before
                product100 == Abs(max_brightness * hist[i].arg)
            IN  /\ Sign(t) * Sign(hist[i].arg) >= 0
                /\ 100 * Abs(t) <= product100
                /\ product100 <= 100 * (Abs(t) + 1)
                /\ (product100 = 100 * (Abs(t) + 1))
                      => <<max_brightness, Abs(hist[i].arg)>> \in FpShortfall

\* A positive and a negative delta application for which rounding to nearest
\* and truncation differ.
C16_Witness ==
    /\ Len(hist) = 2
    /\ \A i \in DOMAIN hist :
          /\ hist[i].op = "delta"
          /\ RoundDiv(max_brightness * hist[i].arg, 100)
                # TruncDiv(max_brightness * hist[i].arg, 100)
    /\ hist[1].arg > 0 /\ hist[2].arg < 0

\* C17: an iteration that finds the pipe empty leaves ambient_mode and the
\* pending delta as they were, calls adjust_brightness not at all and ends in
\* the sleep step.
C17_IdleIterationChangesNothing ==
    [][\A p \in Procs :
          (StepOf(p) /\ pc[p] = "loop" /\ pipe[fd[p]] = << >>)
          => /\ ambient_mode'[p] = ambient_mode[p]
             /\ brightness_adjustment'[p] = brightness_adjustment[p]
             /\ applied'[p] = applied[p]
             /\ pc'[p] = "sleep"]_vars

\* C18: a daemon at the top of its loop reaches the sleep step and a daemon
\* in the sleep step reaches the top of the loop again, with or without
\* clients, unless the process exits (on a failing fopen of a sysfs file).
C18_LoopNeverStalls ==
    \A p \in Procs :
        /\ (pc[p] = "loop") ~> (pc[p] = "sleep" \/ pc[p] = "exited")
        /\ (pc[p] = "sleep") ~> (pc[p] = "loop" \/ pc[p] = "exited")

\* The daemon has finished an iteration and no client was ever invoked.
C18_Witness ==
    /\ pc[1] = "sleep"
    /\ consumed[1] = << >>
    /\ \A q \in Procs \ {1} : pc[q] = "unborn"

\* The message write_fifo(brightness_adjustment, ambient_mode) of invocation p.
Message(p) == PipeData(ParsedDelta(argv[p]), ParsedAmbient(argv[p]))

\* The messages of the invocations 1..n that have written, in invocation order.
RECURSIVE Written(_)
Written(n) ==
    IF n = 0 THEN << >>
    ELSE IF exitAt[n] = "write_open"
         THEN Append(Written(n - 1), Message(n))
         ELSE Written(n - 1)

\* Every invocation so far began when the ones before it had exited or were
\* daemons in their loop.
AllSequential == \A q \in Procs : pc[q] # "unborn" => sequential[q]

DeliveredInOrder ==
    \A p \in Procs :
        (pc[p] \in LoopPcs /\ AllSequential)
            => consumed[p] \o pipe[fd[p]] = Written(NProcs)

\* C19: with sequential clients, what the loop has consumed followed by what
\* is still in the pipe is the sequence of the messages written, in
\* invocation order, and a step of the loop consumes at most one message.
C19_ConsumedIsWritten ==
    [][/\ DeliveredInOrder /\ DeliveredInOrder'
       /\ \A p \in Procs : Len(consumed'[p]) <= Len(consumed[p]) + 1]_vars

\* Two sequential clients have written different messages; the loop has
\* consumed the first and the second waits in the pipe.
C19_Witness ==
    /\ pc[1] \in LoopPcs /\ AllSequential
    /\ Len(consumed[1]) = 1 /\ Len(pipe[fd[1]]) = 1
    /\ consumed[1][1] # pipe[fd[1]][1]

\* C20 as claimed: a process leaves the loop only in signal_handler.
C20_LeavesLoopOnlyBySignal ==
    [][\A p \in Procs :
          (pc[p] \in LoopPcs /\ pc'[p] \notin LoopPcs) => p \in signalled']_vars

\* C20 as amended: a process leaves the loop only in signal_handler or, from
\* an iteration that applies a delta or runs the ambient step, in
\* exit(EXIT_FAILURE); the loop condition never ends the loop.
C20_LeavesLoopBySignalOrFailure ==
    [][\A p \in Procs :
          (pc[p] \in LoopPcs /\ pc'[p] \notin LoopPcs)
          => /\ pc'[p] = "exited"
             /\ \/ p \in signalled' /\ exitCode'[p] = 0
                \/ /\ pc[p] = "loop" /\ exitCode'[p] = 1
                   /\ (DrainedDelta(p) # 0 \/ DrainedAmbient(p))]_vars

\* A daemon has left its loop in exit(EXIT_FAILURE) with no signal sent to it.
C20_Witness ==
    \E p \in Procs :
        /\ exitAt[p] = "loop" /\ exitCode[p] = 1
        /\ p \notin signalled /\ p \notin sigPending

\* A daemon has left its loop in signal_handler.
C20_SignalCase ==
    \E p \in Procs : exitAt[p] \in LoopPcs /\ p \in signalled /\ exitCode[p] = 0

\* The values the ambient step can write.
AmbientWrites == {AmbientWrite(i, max_brightness, config) : i \in SensorValues}

\* C21: a step of the loop that consumes a message with a non-zero delta and
\* ambient_mode true calls adjust_brightness once, flips ambient_mode and
\* leaves no delta pending; a step that ends in sleep with ambient_mode on
\* leaves an ambient value in the brightness file, and otherwise the result of
\* the delta; a step that ends in exit(EXIT_FAILURE) has written nothing or
\* the result of the delta only.
C21_IterationOrder ==
    [][\A p \in Procs :
          (StepOf(p) /\ pc[p] = "loop") =>
              /\ ( /\ pipe[fd[p]] # << >>
                   /\ Head(pipe[fd[p]]).brightness_adjustment # 0
                   /\ Head(pipe[fd[p]]).ambient_mode
                   /\ pc'[p] = "sleep" )
                 => /\ applied'[p] = applied[p] + 1
                    /\ ambient_mode'[p] = ~ambient_mode[p]
                    /\ brightness_adjustment'[p] = 0
              /\ pc'[p] = "sleep" =>
                    IF ambient_mode'[p]
                    THEN brightness' \in AmbientWrites
                    ELSE brightness' = AfterApply(p)
              /\ pc'[p] = "exited" => brightness' \in {brightness, AfterApply(p)}]_vars

\* The loop has consumed one message with delta 50 and ambient_mode true,
\* which switched ambient mode on; the delta was applied and the brightness
\* file holds an ambient value that differs from the result of the delta.
C21_Witness ==
    \E p \in Procs :
        /\ pc[p] = "sleep"
        /\ argv[p] = <<Opt("d", 0)>>
        /\ consumed[p] = << PipeData(50, TRUE) >>
        /\ ambient_mode[p] /\ applied[p] = 1 /\ brightness_adjustment[p] = 0
        /\ brightness \in AmbientWrites
        /\ brightness # DeltaWrite(50, 50, max_brightness)

\* C22: an invocation with -a and without -d that saw no marker does not
\* return from main: it never exits with code 0.
C22_AmbientLoopsInForeground ==
    \A p \in Procs :
        ( /\ IsClient(p) /\ ParsedAmbient(argv[p]) /\ ~pid_file[p]
          /\ pc[p] = "exited" )
        => exitCode[p] # 0

\* Such an invocation of the one-shot variant is in its ambient loop and has
\* written an ambient value.
C22_OneShotLoops ==
    \E p \in Procs :
        /\ IsClient(p) /\ ParsedAmbient(argv[p]) /\ pc[p] = "ambient_sleep"
        /\ brightness \in {OneShotAmbientWrite(i) : i \in SensorValues}

====
